---------------------------- MODULE Spec2Model ----------------------------
(***************************************************************************)
(* A model of tty-copy (src/tty-copy.c): the OSC 52 transfer loop, the     *)
(* clear operation, the terminal probe and the base64 encoder.             *)
(*                                                                         *)
(* The destination stream `tty` is modelled by the log `out` of the write  *)
(* calls issued on it, one token per string written, each with the outcome *)
(* of the call.  Bytes are the integers 0..255.  The environment is        *)
(* modelled as follows: a device failure is persistent (once a write to    *)
(* the terminal fails, every later write fails; once a read of the input   *)
(* fails, the input yields nothing more), the termios calls succeed on a   *)
(* terminal, and fmemopen() succeeds (also on an empty buffer).            *)
(***************************************************************************)
EXTENDS Integers, Sequences, FiniteSets, TLC

\* ---------------------------------------------------------------- constants
OP_CLEAR == "c"
OP_TEST  == "t"
OP_WRITE == "w"

EXIT_SUCCESS    == 0
ERR_GENERAL     == 1
ERR_WRONG_USAGE == 10
ERR_IO          == 11

OSC_SAFE_LIMIT == 74994

\* Bytes of the C character constants used by the program.
ESC == 27
BEL == 7
NL  == 10
SP  == 32
PAD == 61

\* Raw chunk capacities: sizeof(read_buf) is (is_screen ? 254 : 2048) * 3.
SCREEN_GROUPS  == 254
DEFAULT_GROUPS == 2048

\* sizeof(buf) in get_cursor_column.
CURSOR_BUF == 16

\* -------------------------------------------------------------------- bounds
\* Input lengths 0..SmallLen are enumerated.
SmallLen == 4
\* Input lengths within Slack of a multiple of a chunk capacity are enumerated.
Slack == 1
\* ... for the multiples 1..MaxChunks.
MaxChunks == 1
\* Stream lengths OSC_SAFE_LIMIT - 1 .. OSC_SAFE_LIMIT + LimitSlack are enumerated.
LimitSlack == 1
\* Byte sequences of length 0..MaxB64Len are encoded by the encoder alone.
MaxB64Len == 4

\* ------------------------------------------------------------------- helpers
Min(a, b) == IF a < b THEN a ELSE b

RECURSIVE Flatten(_)
Flatten(ss) == IF ss = <<>> THEN <<>> ELSE Head(ss) \o Flatten(Tail(ss))

\* ------------------------------------------------------------------- base64
b64_table ==
  <<65, 66, 67, 68, 69, 70, 71, 72, 73, 74, 75, 76, 77,
    78, 79, 80, 81, 82, 83, 84, 85, 86, 87, 88, 89, 90,
    97, 98, 99, 100, 101, 102, 103, 104, 105, 106, 107, 108, 109,
    110, 111, 112, 113, 114, 115, 116, 117, 118, 119, 120, 121, 122,
    48, 49, 50, 51, 52, 53, 54, 55, 56, 57, 43, 47>>

base64_encoded_size(size) == ((size + 2) \div 3) * 4 + 1

\* Variant of B64Group whose third character leaves out in[2] >> 6.
MutB64Group(in0, in1, in2, k) ==
  CASE k = 0 -> b64_table[(in0 \div 4) + 1]
    [] k = 1 -> b64_table[((in0 % 4) * 16 + (in1 \div 16)) + 1]
    [] k = 2 -> b64_table[((in1 % 16) * 4) + 1]
    [] k = 3 -> b64_table[(in2 % 64) + 1]

\* The body of the while loop: output byte k (0..3) of the full group whose
\* input bytes are in0, in1, in2.  x >> n is x \div 2^n, x & (2^n - 1) is
\* x % 2^n, and the | joins disjoint bit ranges, so it is a sum.
B64Group(in0, in1, in2, k) ==
  CASE k = 0 -> b64_table[(in0 \div 4) + 1]
    [] k = 1 -> b64_table[((in0 % 4) * 16 + (in1 \div 16)) + 1]
    [] k = 2 -> b64_table[((in1 % 16) * 4 + (in2 \div 64)) + 1]
    [] k = 3 -> b64_table[(in2 % 64) + 1]

\* The tail after the loop: output byte k of the last group, which has
\* rem (1 or 2) input bytes; in1 is read only when rem = 2.
B64Tail(in0, in1, rem, k) ==
  CASE k = 0 -> b64_table[(in0 \div 4) + 1]
    [] k = 1 -> IF rem = 1 THEN b64_table[((in0 % 4) * 16) + 1]
                           ELSE b64_table[((in0 % 4) * 16 + (in1 \div 16)) + 1]
    [] k = 2 -> IF rem = 1 THEN PAD ELSE b64_table[((in1 % 16) * 4) + 1]
    [] k = 3 -> PAD

\* Variant of EncodedLen that counts the terminating null byte.
MutEncodedLen(srclen) == ((srclen + 2) \div 3) * 4 + 1

\* The value base64_encode returns for srclen source bytes: 4 bytes for
\* each group the while loop encodes and 4 for a tail of 1 or 2 bytes.
EncodedLen(srclen) ==
  (srclen \div 3) * 4 + (IF srclen % 3 > 0 THEN 4 ELSE 0)

\* base64_encode on the bytes src: the bytes written to dst before the
\* terminating null byte.  The return value, pos - dst, is their number.
\* Output byte j belongs to group g = (j - 1) \div 4: one of the full groups
\* the while loop writes, or the tail.
base64_encode(src) ==
  LET srclen == Len(src)
      full   == srclen \div 3
      rem    == srclen % 3
      len    == EncodedLen(srclen)
  IN  [j \in 1..len |->
         LET g == (j - 1) \div 4
             k == (j - 1) % 4
         IN  IF g < full
               THEN B64Group(src[3 * g + 1], src[3 * g + 2], src[3 * g + 3], k)
               ELSE B64Tail(src[3 * g + 1],
                            IF rem = 2 THEN src[3 * g + 2] ELSE 0, rem, k)]

\* ---------------------------------------------------------- program state
VARIABLES
  opts,          \* the CLI options struct, as parse_opts leaves it
  argv,          \* the arguments after the options (argv[optind..argc-1])
  stdin_data,    \* the content of the standard input
  isatty,        \* isatty(tty_fd)
  lflag,         \* c_lflag of the terminal device
  term_restore,  \* main's term_restore.c_lflag
  pc,            \* position in main
  rc,            \* main's rc
  out,           \* write calls issued on tty, in order
  tty_err,       \* ferror(tty)
  tty_broken,    \* the device fails every write from now on
  rx,            \* bytes the terminal has sent that tty has not read yet
  col, col2,     \* the probe's two cursor columns
  i,             \* index of the argument being joined (1-based)
  buf_len,       \* main's buf_len
  buf,           \* main's buf: the joined arguments
  input,         \* content of the stream `input`
  in_pos,        \* bytes of `input` consumed so far
  in_err,        \* ferror(input)
  in_broken,     \* `input` fails every read from now on
  write_header,  \* main's write_header
  read_len,      \* main's read_len
  input_len,     \* main's input_len
  logs,          \* messages written to stderr
  b64_src,       \* encoder alone: the source bytes
  b64_dst,       \* encoder alone: <<returned length, bytes written>> or <<>>
  reply_buf      \* buf of the last get_cursor_column: the bytes it read

vars == <<opts, argv, stdin_data, isatty, lflag, term_restore, pc, rc, out,
          tty_err, tty_broken, rx, col, col2, i, buf_len, buf, input, in_pos,
          in_err, in_broken, write_header, read_len, input_len, logs,
          b64_src, b64_dst, reply_buf>>

\* ------------------------------------------------------------ byte streams
\* A stream's content: len bytes, of which those at the positions nl are
\* "\n", those at sp are " ", and the others are given by Pat.
Pat(p) == 33 + ((p * 37) % 223)

EmptyStream == [len |-> 0, nl |-> {}, sp |-> {}]

ByteAt(s, p) == IF p \in s.nl THEN NL ELSE IF p \in s.sp THEN SP ELSE Pat(p)

\* The n bytes of s after the first off bytes.
Slice(s, off, n) == [p \in 1..n |-> ByteAt(s, off + p)]

\* Variant of ReadBufSize, one byte larger.
MutReadBufSize(o) == (IF o.is_screen THEN SCREEN_GROUPS ELSE DEFAULT_GROUPS) * 3 + 1

\* sizeof(read_buf)
ReadBufSize(o) == (IF o.is_screen THEN SCREEN_GROUPS ELSE DEFAULT_GROUPS) * 3

\* sizeof(enc_buf)
EncBufSize(o) == base64_encoded_size(ReadBufSize(o))

\* Variant of seq_end that gives Screen the footer of tmux.
MutSeqEnd(o) == IF o.is_tmux \/ o.is_screen THEN <<BEL, ESC, 92>> ELSE <<BEL>>

\* seq_start and seq_end
seq_start(o) ==
  (IF o.is_tmux THEN <<ESC, 80, 116, 109, 117, 120, 59, ESC>> ELSE <<>>)
    \o <<ESC, 93, 53, 50, 59, (IF o.primary THEN 112 ELSE 99), 59>>

seq_end(o) == IF o.is_tmux THEN <<BEL, ESC, 92>> ELSE <<BEL>>

\* ------------------------------------------------------------- tty writes
\* One token per string written to tty: DECSC "\0337", DECRC "\0338",
\* DSR "\033[6n", HDR seq_start, FTR seq_end, BANG "!", DCS "\033P",
\* ST "\033\\", B64 the encoding of the n input bytes after offset off.
Tok(k, ok) == [k |-> k, ok |-> ok, off |-> 0, n |-> 0]

TokB64(ok, off, n) == [k |-> "B64", ok |-> ok, off |-> off, n |-> n]

\* The outcomes of n successive write calls: f = 0 when the device does not
\* start failing, f in 1..n when it starts failing at call f.
Fails(n) == IF tty_broken THEN {0} ELSE 0..n

CallOk(f, j) == ~tty_broken /\ (f = 0 \/ j < f)


\* Append to the log the tokens of kinds ks, all written by one call with
\* outcome ok.
Put(log, ks, ok) == log \o [j \in 1..Len(ks) |-> Tok(ks[j], ok)]

\* The bytes of the string a token stands for, with the options o.
TokBytes(o, t) ==
  CASE t.k = "DECSC" -> <<ESC, 55>>
    [] t.k = "DECRC" -> <<ESC, 56>>
    [] t.k = "DSR"   -> <<ESC, 91, 54, 110>>
    [] t.k = "HDR"   -> seq_start(o)
    [] t.k = "FTR"   -> seq_end(o)
    [] t.k = "BANG"  -> <<33>>
    [] t.k = "DCS"   -> <<ESC, 80>>
    [] t.k = "ST"    -> <<ESC, 92>>
    [] t.k = "B64"   -> base64_encode(Slice(input, t.off, t.n))

\* The number of bytes a write call gives to the device.
TokLen(o, t) ==
  IF t.k = "B64" THEN EncodedLen(t.n) ELSE Len(TokBytes(o, t))

\* ------------------------------------------------------ the cursor reply
\* Characters the terminal may send, as one-character strings; "ESC" is the
\* escape byte and "X" any other byte.
Digit == {"0", "1", "2", "3", "4", "5", "6", "7", "8", "9"}

DigitVal(c) ==
  CASE c = "0" -> 0 [] c = "1" -> 1 [] c = "2" -> 2 [] c = "3" -> 3
    [] c = "4" -> 4 [] c = "5" -> 5 [] c = "6" -> 6 [] c = "7" -> 7
    [] c = "8" -> 8 [] c = "9" -> 9

\* Variant of ReadCount that does not stop at "R".
RECURSIVE MutReadCount(_, _)
MutReadCount(q, n) ==
  IF n >= CURSOR_BUF - 1 \/ n >= Len(q) THEN n
  ELSE MutReadCount(q, n + 1)

\* The for loop of get_cursor_column on the pending bytes q: the number of
\* fgetc calls that return a byte.  It stops after the first "R", after
\* sizeof(buf) - 1 bytes, or when fgetc fails (q is exhausted).
RECURSIVE ReadCount(_, _)
ReadCount(q, n) ==
  IF n >= CURSOR_BUF - 1 \/ n >= Len(q) THEN n
  ELSE IF q[n + 1] = "R" THEN n + 1
  ELSE ReadCount(q, n + 1)

\* Whether the loop ended because fgetc failed.
ReadFailed(q) ==
  LET n == ReadCount(q, 0)
  IN  n = Len(q) /\ n < CURSOR_BUF - 1 /\ (n = 0 \/ q[n] # "R")

\* sscanf's %d at position p of b: skips white space, takes an optional
\* sign and then the digits.  [ok, val, next].
RECURSIVE SkipSpace(_, _)
SkipSpace(b, p) ==
  IF p <= Len(b) /\ b[p] = " " THEN SkipSpace(b, p + 1) ELSE p

RECURSIVE ScanDigits(_, _, _)
ScanDigits(b, p, acc) ==
  IF p <= Len(b) /\ b[p] \in Digit
    THEN ScanDigits(b, p + 1, acc * 10 + DigitVal(b[p]))
    ELSE [val |-> acc, next |-> p]

ScanInt(b, p) ==
  LET q    == SkipSpace(b, p)
      sign == q <= Len(b) /\ b[q] \in {"-", "+"}
      d    == IF sign THEN q + 1 ELSE q
      r    == ScanDigits(b, d, 0)
  IN  IF d <= Len(b) /\ b[d] \in Digit
        THEN [ok |-> TRUE,
              val |-> IF sign /\ b[q] = "-" THEN 0 - r.val ELSE r.val,
              next |-> r.next]
        ELSE [ok |-> FALSE, val |-> 0, next |-> d]

\* sscanf(buf, "\033[%d;%dR", &row, &col) != 2 ? -1 : col.  The count is 2
\* as soon as the second number is converted: the "R" of the format is
\* matched after it and does not change the count.
ParseReply(b) ==
  IF Len(b) >= 2 /\ b[1] = "ESC" /\ b[2] = "["
    THEN LET row == ScanInt(b, 3)
         IN  IF row.ok /\ row.next <= Len(b) /\ b[row.next] = ";"
               THEN LET c == ScanInt(b, row.next + 1)
                    IN  IF c.ok THEN c.val ELSE -1
               ELSE -1
    ELSE -1

\* get_cursor_column once its request is written, on the pending bytes q:
\* the value returned and the bytes left unread.
get_cursor_column(q) ==
  LET n == ReadCount(q, 0)
  IN  [col  |-> IF ReadFailed(q) THEN -1 ELSE ParseReply(SubSeq(q, 1, n)),
       rest |-> SubSeq(q, n + 1, Len(q)),
       buf  |-> SubSeq(q, 1, n)]

\* What the terminal sends after a cursor-position request.
Replies ==
  { <<"ESC", "[", "1", ";", "1", "R">>,           \* column 1
    <<"ESC", "[", "1", "2", ";", "7", "R">>,      \* column 7
    <<"ESC", "[", "1", ";", "7", "R", "X">>,      \* column 7 and a stray byte
    <<>>,                                         \* nothing
    <<"ESC", "[", "1", ";">>,                     \* cut short
    <<"ESC", "[", "1", ";", "7">>,                \* no terminator
    <<"X", "ESC", "[", "1", ";", "1", "R">>,      \* a leading byte
    <<"ESC", "[", "1", ";", "-", "1", "R">>,      \* negative column
    <<"ESC", "[", "1", ";", "7", "X", "X", "X", "X", "X", "X", "X", "X", "X",
      "X", "X">> }                                \* longer than the buffer


\* ------------------------------------------------------------ initial states
Caps == {SCREEN_GROUPS * 3, DEFAULT_GROUPS * 3}

\* Stream lengths: the short ones and those around the chunk boundaries.
ChunkLens ==
  (0..SmallLen) \cup
  {k * c + d : k \in 1..MaxChunks, c \in Caps, d \in (0 - Slack)..Slack}

\* Stream lengths around the safe limit.
LimitLens == (OSC_SAFE_LIMIT - 1)..(OSC_SAFE_LIMIT + LimitSlack)

\* Where a stream of n bytes has its "\n" bytes: nowhere, at its end, at the
\* end of a first chunk, or both.
NlSets(n) ==
  {e \cup b : e \in {{}, {n} \cap (1..n)}, b \in {{}, Caps \cap (1..n)}}

Streams(lens) ==
  UNION {{[len |-> n, nl |-> s, sp |-> {}] : s \in NlSets(n)} : n \in lens}

\* An argument: its length and whether its last byte is "\n".
Arg(n, nl) == [len |-> n, nl |-> nl]

SmallArgLists ==
  { <<Arg(0, FALSE)>>, <<Arg(1, FALSE)>>, <<Arg(1, TRUE)>>, <<Arg(3, FALSE)>>,
    <<Arg(2, FALSE), Arg(3, TRUE)>>, <<Arg(0, FALSE), Arg(0, FALSE)>>,
    <<Arg(SCREEN_GROUPS * 3, TRUE), Arg(1, FALSE)>>,
    <<Arg(1, FALSE), Arg(OSC_SAFE_LIMIT, FALSE)>> }

\* Argument lists whose joined length is around the safe limit.
LimitArgLists ==
  { <<Arg(OSC_SAFE_LIMIT + d, FALSE)>> : d \in (0 - 3)..LimitSlack } \cup
  { <<Arg(OSC_SAFE_LIMIT - 10, FALSE), Arg(9 + d, FALSE)>> :
      d \in (0 - 3)..LimitSlack } \cup
  { <<Arg(OSC_SAFE_LIMIT - 2, FALSE), Arg(0, FALSE)>>,
    <<Arg(OSC_SAFE_LIMIT - 2, FALSE), Arg(0, FALSE), Arg(0, FALSE)>>,
    <<Arg(0, FALSE), Arg(0, FALSE), Arg(0, FALSE),
      Arg(OSC_SAFE_LIMIT - 2, FALSE)>> }

\* The option structs parse_opts can leave: at most one of is_screen and
\* is_tmux is set.
OptsSet(prims) ==
  {o \in [op : {OP_WRITE, OP_CLEAR, OP_TEST}, is_screen : BOOLEAN,
          is_tmux : BOOLEAN, primary : prims, trim_newline : BOOLEAN] :
     ~(o.is_screen /\ o.is_tmux)}

\* Local-mode flags of the device.  CREAD names the c_lflag bit that has the
\* value of the c_cflag constant CREAD.
LFlags == {{"ISIG", "ICANON", "ECHO", "CREAD"}, {"ISIG"}}

\* ~(CREAD | ECHO | ICANON)
RawMask == {"CREAD", "ECHO", "ICANON"}

InitWith(prims, ttys, streams, arglists) ==
  /\ opts \in OptsSet(prims)
  /\ \E src \in {"stdin", "args"} :
       IF opts.op = OP_WRITE /\ src = "stdin"
         THEN argv = <<>> /\ stdin_data \in streams
       ELSE IF opts.op = OP_WRITE
         THEN argv \in arglists /\ stdin_data = EmptyStream
         ELSE src = "stdin" /\ argv = <<>> /\ stdin_data = EmptyStream
  /\ isatty \in ttys
  /\ lflag \in (IF isatty THEN LFlags ELSE {{}})
  /\ term_restore = {}
  /\ pc = "start"
  /\ rc = EXIT_SUCCESS
  /\ out = <<>>
  /\ tty_err = FALSE
  /\ tty_broken = FALSE
  /\ rx = <<>>
  /\ col = 0
  /\ col2 = 0
  /\ i = 1
  /\ buf_len = 0
  /\ buf = EmptyStream
  /\ input = stdin_data
  /\ in_pos = 0
  /\ in_err = FALSE
  /\ in_broken = FALSE
  /\ write_header = TRUE
  /\ read_len = 0
  /\ input_len = 0
  /\ logs = {}
  /\ b64_src = <<>>
  /\ b64_dst = <<>>
  /\ reply_buf = <<>>

Init == InitWith(BOOLEAN, BOOLEAN, Streams(ChunkLens), SmallArgLists)

\* The same inputs with the selection and the kind of destination fixed.
InitData == InitWith({FALSE}, {FALSE}, Streams(ChunkLens), SmallArgLists)

\* Inputs around the safe limit.
InitLimit == InitWith({FALSE}, {TRUE}, Streams(LimitLens), LimitArgLists)

\* The encoder alone, on every sequence of at most MaxB64Len sample bytes.
ByteSamples == {0, 1, NL, 63, 64, 128, 170, 255}

SeqsUpTo(n) == UNION {[1..m -> ByteSamples] : m \in 0..n}

InitB64 ==
  /\ b64_src \in SeqsUpTo(MaxB64Len)
  /\ b64_dst = <<>>
  /\ pc = "b64"
  /\ opts = [op |-> OP_WRITE, is_screen |-> FALSE, is_tmux |-> FALSE,
             primary |-> FALSE, trim_newline |-> FALSE]
  /\ argv = <<>>
  /\ stdin_data = EmptyStream
  /\ isatty = FALSE
  /\ lflag = {}
  /\ term_restore = {}
  /\ rc = EXIT_SUCCESS
  /\ out = <<>>
  /\ tty_err = FALSE
  /\ tty_broken = FALSE
  /\ rx = <<>>
  /\ col = 0
  /\ col2 = 0
  /\ i = 1
  /\ buf_len = 0
  /\ buf = EmptyStream
  /\ input = EmptyStream
  /\ in_pos = 0
  /\ in_err = FALSE
  /\ in_broken = FALSE
  /\ write_header = TRUE
  /\ read_len = 0
  /\ input_len = 0
  /\ logs = {}
  /\ reply_buf = <<>>

\* ------------------------------------------------------------------ actions
\* main up to the dispatch on opts.op: save the terminal state and change
\* the local modes when tty is a terminal.
Setup ==
  /\ pc = "start"
  /\ IF isatty
       THEN term_restore' = lflag /\ lflag' = lflag \ RawMask
       ELSE UNCHANGED <<term_restore, lflag>>
  /\ pc' = CASE opts.op = OP_TEST -> "probe"
             [] opts.op = OP_CLEAR -> "clear"
             [] OTHER -> IF Len(argv) > 0 THEN "args" ELSE "loop"
  /\ UNCHANGED <<opts, argv, stdin_data, isatty, rc, out, tty_err, tty_broken,
                 rx, col, col2, i, buf_len, buf, input, in_pos, in_err,
                 in_broken, write_header, read_len, input_len, logs,
                 b64_src, b64_dst, reply_buf>>

\* OP_TEST: fputs("\0337", tty).
ProbeSave ==
  /\ pc = "probe"
  /\ \E f \in Fails(1) :
       /\ out' = Put(out, <<"DECSC">>, CallOk(f, 1))
       /\ tty_broken' = (tty_broken \/ f > 0)
       /\ tty_err' = (tty_err \/ ~CallOk(f, 1))
  /\ pc' = "query1"
  /\ UNCHANGED <<opts, argv, stdin_data, isatty, lflag, term_restore, rc, rx,
                 col, col2, i, buf_len, buf, input, in_pos, in_err, in_broken,
                 write_header, read_len, input_len, logs,
                 b64_src, b64_dst, reply_buf>>

\* One call of get_cursor_column(tty) whose request is written with outcome
\* wok: when the write fails the result is -1; otherwise the terminal sends
\* reply, and the pending bytes are read and parsed.  e: a failing fgetc
\* sets the error indicator of tty.
Queried(wok, reply, e) ==
  IF ~wok
    THEN [col |-> -1, rest |-> rx, err |-> TRUE, buf |-> <<>>]
    ELSE LET q == rx \o reply
             r == get_cursor_column(q)
         IN  [col |-> r.col, rest |-> r.rest, err |-> ReadFailed(q) /\ e,
              buf |-> r.buf]

Query1 ==
  /\ pc = "query1"
  /\ \E f \in Fails(1), reply \in Replies, e \in BOOLEAN :
       LET r == Queried(CallOk(f, 1), reply, e)
       IN  /\ out' = Put(out, <<"DSR">>, CallOk(f, 1))
           /\ tty_broken' = (tty_broken \/ f > 0)
           /\ col' = r.col
           /\ rx' = r.rest
           /\ reply_buf' = r.buf
           /\ tty_err' = (tty_err \/ r.err)
  /\ pc' = "stimulus"
  /\ UNCHANGED <<opts, argv, stdin_data, isatty, lflag, term_restore, rc,
                 col2, i, buf_len, buf, input, in_pos, in_err, in_broken,
                 write_header, read_len, input_len, logs, b64_src, b64_dst>>

\* fprintf(tty, "%s%s", seq_start, seq_end)
Stimulus ==
  /\ pc = "stimulus"
  /\ \E f \in Fails(1) :
       /\ out' = Put(out, <<"HDR", "FTR">>, CallOk(f, 1))
       /\ tty_broken' = (tty_broken \/ f > 0)
       /\ tty_err' = (tty_err \/ ~CallOk(f, 1))
  /\ pc' = "query2"
  /\ UNCHANGED <<opts, argv, stdin_data, isatty, lflag, term_restore, rc, rx,
                 col, col2, i, buf_len, buf, input, in_pos, in_err, in_broken,
                 write_header, read_len, input_len, logs,
                 b64_src, b64_dst, reply_buf>>

Query2 ==
  /\ pc = "query2"
  /\ \E f \in Fails(1), reply \in Replies, e \in BOOLEAN :
       LET r == Queried(CallOk(f, 1), reply, e)
       IN  /\ out' = Put(out, <<"DSR">>, CallOk(f, 1))
           /\ tty_broken' = (tty_broken \/ f > 0)
           /\ col2' = r.col
           /\ rx' = r.rest
           /\ reply_buf' = r.buf
           /\ tty_err' = (tty_err \/ r.err)
  /\ pc' = "evaluate"
  /\ UNCHANGED <<opts, argv, stdin_data, isatty, lflag, term_restore, rc,
                 col, i, buf_len, buf, input, in_pos, in_err, in_broken,
                 write_header, read_len, input_len, logs, b64_src, b64_dst>>

\* Variant of ProbeFailed without the comparison of the columns.
MutProbeFailed(c, c2) == c < 0 \/ c2 < 0

\* The probe's verdict.
ProbeFailed(c, c2) == c < 0 \/ c2 < 0 \/ c # c2

Evaluate ==
  /\ pc = "evaluate"
  /\ IF ProbeFailed(col, col2)
       THEN /\ \E f \in Fails(1) :
                 /\ out' = Put(out, <<"DECRC">>, CallOk(f, 1))
                 /\ tty_broken' = (tty_broken \/ f > 0)
                 /\ tty_err' = (tty_err \/ ~CallOk(f, 1))
            /\ rc' = ERR_GENERAL
       ELSE UNCHANGED <<out, tty_broken, tty_err, rc>>
  /\ pc' = "check_tty"
  /\ UNCHANGED <<opts, argv, stdin_data, isatty, lflag, term_restore, rx,
                 col, col2, i, buf_len, buf, input, in_pos, in_err, in_broken,
                 write_header, read_len, input_len, logs,
                 b64_src, b64_dst, reply_buf>>

\* OP_CLEAR: fprintf(tty, "%s!%s", seq_start, seq_end); fflush(tty).
Clear ==
  /\ pc = "clear"
  /\ \E f \in Fails(1) :
       /\ out' = Put(out, <<"HDR", "BANG", "FTR">>, CallOk(f, 1))
       /\ tty_broken' = (tty_broken \/ f > 0)
       /\ tty_err' = (tty_err \/ ~CallOk(f, 1))
  /\ pc' = "check_tty"
  /\ UNCHANGED <<opts, argv, stdin_data, isatty, lflag, term_restore, rc, rx,
                 col, col2, i, buf_len, buf, input, in_pos, in_err, in_broken,
                 write_header, read_len, input_len, logs,
                 b64_src, b64_dst, reply_buf>>


\* OP_WRITE with arguments: the test that rejects argument i.
TooLong(len, arg_len) == len + arg_len + 2 > OSC_SAFE_LIMIT

\* One iteration of the for loop that accepts argv[i]: a space when the
\* buffer is not empty, then the argument.
ArgAppend ==
  /\ pc = "args"
  /\ i <= Len(argv)
  /\ ~TooLong(buf_len, argv[i].len)
  /\ LET at  == IF buf_len > 0 THEN buf_len + 1 ELSE buf_len
         len == at + argv[i].len
     IN  /\ buf_len' = len
         /\ buf' = [len |-> len,
                    nl  |-> buf.nl \cup (IF argv[i].nl THEN {len} ELSE {}),
                    sp  |-> buf.sp \cup (IF buf_len > 0 THEN {at} ELSE {})]
  /\ i' = i + 1
  /\ UNCHANGED <<opts, argv, stdin_data, isatty, lflag, term_restore, pc, rc,
                 out, tty_err, tty_broken, rx, col, col2, input, in_pos,
                 in_err, in_broken, write_header, read_len, input_len, logs,
                 b64_src, b64_dst, reply_buf>>

\* The iteration that rejects argv[i]: goto done.
ArgReject ==
  /\ pc = "args"
  /\ i <= Len(argv)
  /\ TooLong(buf_len, argv[i].len)
  /\ logs' = logs \cup {"Command line is too long"}
  /\ rc' = ERR_GENERAL
  /\ pc' = "done"
  /\ UNCHANGED <<opts, argv, stdin_data, isatty, lflag, term_restore, out,
                 tty_err, tty_broken, rx, col, col2, i, buf_len, buf, input,
                 in_pos, in_err, in_broken, write_header, read_len, input_len,
                 b64_src, b64_dst, reply_buf>>

\* input = fmemopen(buf, buf_len, "r")
ArgsOpen ==
  /\ pc = "args"
  /\ i > Len(argv)
  /\ input' = buf
  /\ pc' = "loop"
  /\ UNCHANGED <<opts, argv, stdin_data, isatty, lflag, term_restore, rc, out,
                 tty_err, tty_broken, rx, col, col2, i, buf_len, buf, in_pos,
                 in_err, in_broken, write_header, read_len, input_len, logs,
                 b64_src, b64_dst, reply_buf>>

\* The outcomes of fread(read_buf, 1, sizeof(read_buf), input): the number of
\* bytes read and whether a read error occurred.  Only the standard input
\* can fail; a stream opened on the argument buffer cannot.
FreadOutcomes ==
  LET avail == IF in_broken THEN 0 ELSE input.len - in_pos
      want  == Min(ReadBufSize(opts), avail)
  IN  {[n |-> want, err |-> FALSE]} \cup
      (IF Len(argv) = 0 /\ ~in_broken
         THEN {[n |-> k, err |-> TRUE] :
                 k \in ({0, 1, want - 1} \cap (0..(want - 1))) \cup {0}}
         ELSE {})

\* Variant of TrimmedLen without the end-of-input test.
MutTrimmedLen(trim, peek_eof, last, n) ==
  IF trim /\ last = NL THEN n - 1 ELSE n

\* The trim test: read_len after
\*   if (opts.trim_newline && fpeek(input) == EOF && read_buf[read_len - 1] == '\n')
\*       --read_len
TrimmedLen(trim, peek_eof, last, n) ==
  IF trim /\ peek_eof /\ last = NL THEN n - 1 ELSE n

\* The assertion at the head of base64_encode; when it fails the process
\* aborts.
base64_assert(dstlen, srclen) == dstlen >= base64_encoded_size(srclen)

\* The tokens of the write calls of one iteration up to and including the
\* payload, and those after it.
PreCalls(o, hdr) ==
  (IF o.is_screen THEN <<"DCS">> ELSE <<>>) \o
  (IF hdr THEN <<"HDR">> ELSE <<>>) \o <<"B64">>

PostCalls(o) == IF o.is_screen THEN <<"ST">> ELSE <<>>

\* One iteration of the while loop: fread returned r.n > 0 bytes.  pe: the
\* fgetc of fpeek fails although bytes remain.  f: where the device starts
\* to fail.  A failed assertion in base64_encode aborts the process.
Chunk ==
  /\ pc = "loop"
  /\ \E r \in FreadOutcomes :
       /\ r.n > 0
       /\ LET pos1    == in_pos + r.n
              broken1 == in_broken \/ r.err
              peeks   == opts.trim_newline
          IN  \E pe \in (IF peeks /\ Len(argv) = 0 /\ ~broken1 /\ pos1 < input.len
                           THEN BOOLEAN ELSE {FALSE}) :
                LET peek_eof == broken1 \/ pos1 = input.len \/ pe
                    len      == TrimmedLen(opts.trim_newline, peek_eof,
                                           ByteAt(input, pos1), r.n)
                    pre      == PreCalls(opts, write_header)
                    post     == PostCalls(opts)
                IN  /\ input_len' = input_len + r.n
                    /\ in_pos' = pos1
                    /\ in_err' = (in_err \/ r.err \/ pe)
                    /\ in_broken' = (broken1 \/ pe)
                    /\ read_len' = len
                    /\ IF len = 0
                         THEN /\ pc' = "footer"
                              /\ UNCHANGED <<out, tty_err, tty_broken,
                                             write_header, rc>>
                         ELSE \E f \in Fails(Len(pre) + Len(post)) :
                                LET ok(j) == CallOk(f, j)
                                    fits  == base64_assert(EncBufSize(opts), len)
                                    wr    == ok(Len(pre))
                                    head  == [j \in 1..(Len(pre) - 1) |->
                                                Tok(pre[j], ok(j))]
                                    toks  ==
                                      IF ~fits THEN head
                                      ELSE head
                                        \o <<TokB64(wr, in_pos, len)>>
                                        \o (IF wr
                                              THEN [j \in 1..Len(post) |->
                                                      Tok(post[j],
                                                          ok(Len(pre) + j))]
                                              ELSE <<>>)
                                IN  /\ out' = out \o toks
                                    /\ write_header' = FALSE
                                    /\ tty_broken' = (tty_broken \/ f > 0)
                                    /\ tty_err' =
                                         (tty_err \/
                                            \E j \in 1..Len(toks) : ~toks[j].ok)
                                    /\ rc' = IF wr \/ ~fits THEN rc ELSE ERR_IO
                                    /\ pc' = CASE ~fits -> "abort"
                                               [] wr    -> "loop"
                                               [] OTHER -> "footer"
  /\ UNCHANGED <<opts, argv, stdin_data, isatty, lflag, term_restore, rx, col,
                 col2, i, buf_len, buf, input, logs,
                 b64_src, b64_dst, reply_buf>>

\* fread returns 0: the loop ends.
ReadEnd ==
  /\ pc = "loop"
  /\ \E r \in FreadOutcomes :
       /\ r.n = 0
       /\ in_err' = (in_err \/ r.err)
       /\ in_broken' = (in_broken \/ r.err)
  /\ read_len' = 0
  /\ pc' = "footer"
  /\ UNCHANGED <<opts, argv, stdin_data, isatty, lflag, term_restore, rc, out,
                 tty_err, tty_broken, rx, col, col2, i, buf_len, buf, input,
                 in_pos, write_header, input_len, logs,
                 b64_src, b64_dst, reply_buf>>

\* Variant of Oversize with >= for >.
MutOversize(n) == n >= OSC_SAFE_LIMIT

\* The warning test after the loop.
Oversize(n) == n > OSC_SAFE_LIMIT

\* Variant of FooterCalls that skips the footer after an error.
MutFooterCalls(status) == IF status = EXIT_SUCCESS THEN <<"FTR">> ELSE <<>>

\* The strings written after the loop.
FooterCalls(status) == <<"FTR">>

\* After the loop: fputs(seq_end, tty); fflush(tty); the read-error report
\* and the size warning.
Footer ==
  /\ pc = "footer"
  /\ \E f \in Fails(1) :
       /\ out' = Put(out, FooterCalls(rc), CallOk(f, 1))
       /\ tty_broken' = (tty_broken \/ f > 0)
       /\ tty_err' = (tty_err \/ ~CallOk(f, 1))
  /\ rc' = IF in_err THEN ERR_IO ELSE rc
  /\ logs' = logs \cup (IF in_err THEN {"read error"} ELSE {})
                  \cup (IF Oversize(input_len) THEN {"warning: Input size"}
                                               ELSE {})
  /\ pc' = "check_tty"
  /\ UNCHANGED <<opts, argv, stdin_data, isatty, lflag, term_restore, rx, col,
                 col2, i, buf_len, buf, input, in_pos, in_err, in_broken,
                 write_header, read_len, input_len,
                 b64_src, b64_dst, reply_buf>>

\* if (ferror(tty)) { logerr(...); rc = ERR_IO; }
CheckTty ==
  /\ pc = "check_tty"
  /\ rc' = IF tty_err THEN ERR_IO ELSE rc
  /\ logs' = logs \cup (IF tty_err THEN {"write error"} ELSE {})
  /\ pc' = "done"
  /\ UNCHANGED <<opts, argv, stdin_data, isatty, lflag, term_restore, out,
                 tty_err, tty_broken, rx, col, col2, i, buf_len, buf, input,
                 in_pos, in_err, in_broken, write_header, read_len, input_len,
                 b64_src, b64_dst, reply_buf>>

\* Variant of Restored that restores only on success.
MutRestored(tty, cur, saved) == IF tty /\ rc = EXIT_SUCCESS THEN saved ELSE cur

\* done: restore the terminal state and return rc.
Restored(tty, cur, saved) == IF tty THEN saved ELSE cur

Done ==
  /\ pc = "done"
  /\ lflag' = Restored(isatty, lflag, term_restore)
  /\ pc' = "exit"
  /\ UNCHANGED <<opts, argv, stdin_data, isatty, term_restore, rc, out,
                 tty_err, tty_broken, rx, col, col2, i, buf_len, buf, input,
                 in_pos, in_err, in_broken, write_header, read_len, input_len,
                 logs, b64_src, b64_dst, reply_buf>>

\* base64_encode(b64_src, Len(b64_src), dst, base64_encoded_size(Len(b64_src)))
\* on its own: the returned length and the bytes written to dst, the
\* terminating null byte included.
Encode ==
  /\ pc = "b64"
  /\ LET enc == base64_encode(b64_src)
     IN  b64_dst' = <<Len(enc), enc \o <<0>>>>
  /\ pc' = "b64done"
  /\ UNCHANGED <<opts, argv, stdin_data, isatty, lflag, term_restore, rc, out,
                 tty_err, tty_broken, rx, col, col2, i, buf_len, buf, input,
                 in_pos, in_err, in_broken, write_header, read_len, input_len,
                 logs, b64_src, reply_buf>>

Next ==
  \/ Setup
  \/ ProbeSave \/ Query1 \/ Stimulus \/ Query2 \/ Evaluate
  \/ Clear
  \/ ArgAppend \/ ArgReject \/ ArgsOpen
  \/ Chunk \/ ReadEnd \/ Footer
  \/ CheckTty \/ Done

Spec == Init /\ [][Next]_vars

SpecData == InitData /\ [][Next]_vars

SpecLimit == InitLimit /\ [][Next]_vars

InitAll == Init \/ InitB64

NextAll == Next \/ Encode

SpecB64 == InitAll /\ [][NextAll]_vars

\* The program keeps running until it returns: no step of main waits for
\* anything but a read, and every read returns.
SpecFair == Init /\ [][Next]_vars /\ WF_vars(Next)


\* ------------------------------------------------------------------- claims
\* The positions in the log of the tokens of kind k.
Where(k) == {j \in 1..Len(out) : out[j].k = k}

\* A write-mode run that got to the transfer loop (its arguments, if any,
\* were accepted) and is past the loop's footer.
Rejected == "Command line is too long" \in logs

Transferred ==
  opts.op = OP_WRITE /\ ~Rejected /\ pc \in {"check_tty", "done", "exit"}

BeforeFooter ==
  opts.op = OP_WRITE /\ pc \in {"start", "args", "loop", "footer"}

\* C1: in a write-mode run that reaches the transfer loop the write of the
\* footer is issued exactly once, and it is issued after every payload (it
\* is the last write of the run); before the loop has ended no footer has
\* been issued.  This holds on every path: empty input, a read error, a
\* failed payload write.
C1_FooterOnceLast ==
  /\ Transferred =>
       /\ Cardinality(Where("FTR")) = 1
       /\ out[Len(out)].k = "FTR"
       /\ \A j \in Where("B64") : j < Len(out)
  /\ BeforeFooter => Where("FTR") = {}

\* A run whose payload write failed and that has issued its footer.
C1_Witness ==
  /\ pc = "exit"
  /\ Transferred
  /\ \E j \in Where("B64") : ~out[j].ok
  /\ Cardinality(Where("B64")) >= 2
  /\ out[Len(out)].k = "FTR"

\* C2: in a write-mode run that reaches the transfer loop the header is
\* written exactly once and before any payload, for every input, the empty
\* one included.
C2_HeaderOnceFirst ==
  Transferred =>
    /\ Cardinality(Where("HDR")) = 1
    /\ \A h \in Where("HDR"), j \in Where("B64") : h < j

\* C3: a run that returns leaves the terminal's local modes as it found
\* them (the snapshot taken before they were changed is written back), on
\* every path; and no run ends without returning.
C3_TerminalRestored ==
  /\ (pc = "exit" /\ isatty) => lflag = term_restore
  /\ (pc \notin {"start", "exit", "b64", "b64done"} /\ isatty) =>
       lflag = term_restore \ RawMask
  /\ pc # "abort"

\* A transfer to a terminal in cooked mode that failed on a write and has
\* returned with the modes restored.
C3_Witness ==
  /\ pc = "exit"
  /\ isatty
  /\ "ECHO" \in lflag
  /\ opts.op = OP_WRITE
  /\ rc = ERR_IO
  /\ tty_err


IsPayload(t) == t.k = "B64"

Payloads == SelectSeq(out, IsPayload)

\* Each payload encodes the input bytes that follow those of the payload
\* before it, the first one the bytes from the start of the input: together
\* the payloads encode the first PayloadLen bytes of the input.
Contiguous(ts) ==
  \A j \in 1..Len(ts) :
    /\ ts[j].n > 0
    /\ ts[j].off = (IF j = 1 THEN 0 ELSE ts[j - 1].off + ts[j - 1].n)

PayloadLen(ts) == IF ts = <<>> THEN 0 ELSE ts[Len(ts)].off + ts[Len(ts)].n

\* The length of the input without one trailing "\n", when trimming is on.
ExpectedLen ==
  IF opts.trim_newline /\ input.len > 0 /\ ByteAt(input, input.len) = NL
    THEN input.len - 1
    ELSE input.len

\* C5: in a transfer that ends without an I/O error the payloads encode
\* exactly the input, less one trailing "\n" when trimming is enabled and
\* the input ends with "\n" (so a "\n" that ends a non-final chunk is kept);
\* with trimming disabled they encode the input unchanged.  In every
\* transfer the payloads encode the bytes read so far, less at most the
\* last one, which is dropped only when trimming is on and it is a "\n".
C5_TrimNewline ==
  Transferred =>
    LET ts == Payloads
    IN  /\ Contiguous(ts)
        /\ (pc = "exit" /\ rc = EXIT_SUCCESS) => PayloadLen(ts) = ExpectedLen
        /\ PayloadLen(ts) \in {in_pos, in_pos - 1}
        /\ PayloadLen(ts) = in_pos - 1 =>
             (opts.trim_newline /\ ByteAt(input, in_pos) = NL)

\* A trimmed transfer of several chunks whose first chunk ends with "\n"
\* and whose input ends with "\n".
C5_Witness ==
  /\ pc = "exit"
  /\ Transferred
  /\ rc = EXIT_SUCCESS
  /\ opts.trim_newline
  /\ Len(Payloads) >= 2
  /\ ReadBufSize(opts) \in input.nl
  /\ input.len \in input.nl
  /\ PayloadLen(Payloads) = input.len - 1

\* The length of the arguments joined by single spaces.
RECURSIVE SumLen(_)
SumLen(as) == IF as = <<>> THEN 0 ELSE Head(as).len + SumLen(Tail(as))

SpaceJoinedLen(as) == SumLen(as) + Len(as) - 1

\* C6: arguments whose space-joined length exceeds OSC_SAFE_LIMIT are
\* rejected: the run returns a failure status and has written nothing to
\* the destination.
C6_OversizeRejected ==
  (/\ opts.op = OP_WRITE
   /\ Len(argv) > 0
   /\ SpaceJoinedLen(argv) > OSC_SAFE_LIMIT
   /\ pc = "exit") => (rc # EXIT_SUCCESS /\ out = <<>>)

Warned == "warning: Input size" \in logs

\* C7: for input read from the standard input the size warning is issued
\* exactly when more than OSC_SAFE_LIMIT bytes have been read, and it is
\* issued after the loop; it changes nothing else: without an I/O error the
\* run returns success with every chunk and the footer written.
C7_OversizeWarning ==
  (opts.op = OP_WRITE /\ Len(argv) = 0) =>
    /\ pc \in {"check_tty", "done", "exit"} =>
         (Warned <=> in_pos > OSC_SAFE_LIMIT)
    /\ pc \in {"start", "loop", "footer"} => ~Warned
    /\ (pc = "exit" /\ ~in_err /\ ~tty_err) =>
         /\ rc = EXIT_SUCCESS
         /\ Contiguous(Payloads)
         /\ PayloadLen(Payloads) = ExpectedLen
         /\ out[Len(out)].k = "FTR"
         /\ \A j \in 1..Len(out) : out[j].ok

\* A transfer of more than OSC_SAFE_LIMIT bytes that warned and succeeded.
C7_Witness ==
  /\ pc = "exit"
  /\ opts.op = OP_WRITE
  /\ Len(argv) = 0
  /\ input.len > OSC_SAFE_LIMIT
  /\ Warned
  /\ rc = EXIT_SUCCESS
  /\ PayloadLen(Payloads) = ExpectedLen

\* C8: with Screen, in every transfer, every ESC P written is followed by
\* its ESC \ before the next ESC P or the footer is written, every payload
\* lies between an ESC P and its ESC \, and no chunk has more than 254 * 3
\* raw bytes.
C8_ScreenWrapped ==
  (opts.op = OP_WRITE /\ opts.is_screen) =>
    /\ \A j \in Where("DCS"), m \in Where("DCS") \cup Where("FTR") :
         (out[j].ok /\ j < m) => \E e \in Where("ST") : j < e /\ e < m
    /\ \A b \in Where("B64") :
         /\ \E j \in Where("DCS") :
              j < b /\ \A e \in Where("ST") : ~(j < e /\ e < b)
         /\ out[b].n <= 254 * 3

\* C9: the chunk capacity is a multiple of 3 (762 with Screen and 6144
\* otherwise), every chunk but the last has exactly that many raw bytes and
\* the chunks follow one another in the input, and at the end of a transfer
\* that returns success the payloads, concatenated, are the base64 encoding
\* of the transferred bytes taken as a whole, so "=" appears at its end
\* only.
C9_ChunksConcatenate ==
  opts.op = OP_WRITE =>
    LET ts  == Payloads
        cap == ReadBufSize(opts)
    IN  /\ cap % 3 = 0
        /\ cap = (IF opts.is_screen THEN 762 ELSE 6144)
        /\ \A j \in 1..(Len(ts) - 1) : ts[j].n = cap
        /\ Contiguous(ts)
        /\ (pc = "exit" /\ Transferred /\ rc = EXIT_SUCCESS) =>
             Flatten([j \in 1..Len(ts) |->
                        base64_encode(Slice(input, ts[j].off, ts[j].n))])
               = base64_encode(Slice(input, 0, PayloadLen(ts)))

\* A finished transfer of three chunks, the last of which is padded.
C9_Witness ==
  /\ pc = "exit"
  /\ Transferred
  /\ Len(Payloads) >= 3
  /\ Payloads[Len(Payloads)].n % 3 = 1

\* The base64 alphabet and a decoder (RFC 4648).
Alphabet == (65..90) \cup (97..122) \cup (48..57) \cup {43, 47}

DecVal(c) ==
  CASE c \in 65..90  -> c - 65
    [] c \in 97..122 -> c - 71
    [] c \in 48..57  -> c + 4
    [] c = 43        -> 62
    [] c = 47        -> 63
    [] OTHER         -> 0

RECURSIVE Base64Decode(_)
Base64Decode(e) ==
  IF Len(e) < 4 THEN <<>>
  ELSE LET v0 == DecVal(e[1])
           v1 == DecVal(e[2])
           v2 == DecVal(e[3])
           v3 == DecVal(e[4])
           b0 == v0 * 4 + (v1 \div 16)
           b1 == (v1 % 16) * 16 + (v2 \div 4)
           b2 == (v2 % 4) * 64 + v3
       IN  (IF e[3] = PAD THEN <<b0>>
            ELSE IF e[4] = PAD THEN <<b0, b1>>
            ELSE <<b0, b1, b2>>) \o Base64Decode(SubSeq(e, 5, Len(e)))

Ceil3(n) == IF n % 3 = 0 THEN n \div 3 ELSE (n \div 3) + 1

\* C10: base64_encode returns ceil(n / 3) * 4 for n source bytes; it writes
\* that many bytes, alphabet characters followed by zero, one or two "=",
\* a multiple of 4, and then a null byte; decoding them gives the source;
\* base64_encoded_size(n) is the returned length plus one; and the
\* assertion on the size of the destination holds in every call the
\* transfer loop makes.
C10_Base64 ==
  /\ pc = "b64done" =>
       LET n   == Len(b64_src)
           len == b64_dst[1]
           dst == b64_dst[2]
           enc == SubSeq(dst, 1, len)
       IN  /\ len = Ceil3(n) * 4
           /\ len % 4 = 0
           /\ Len(dst) = len + 1
           /\ dst[len + 1] = 0
           /\ \E p \in 0..2 :
                /\ p <= len
                /\ \A j \in 1..(len - p) : enc[j] \in Alphabet
                /\ \A j \in (len - p + 1)..len : enc[j] = PAD
           /\ Base64Decode(enc) = b64_src
           /\ base64_encoded_size(n) = len + 1
  /\ pc # "abort"
  /\ \A b \in Where("B64") :
       /\ base64_encoded_size(out[b].n) = Ceil3(out[b].n) * 4 + 1
       /\ EncBufSize(opts) >= base64_encoded_size(out[b].n)

\* An encoding of a source that needs two "=".
C10_Witness ==
  /\ pc = "b64done"
  /\ Len(b64_src) = 4
  /\ b64_src[4] = 255
  /\ b64_dst[1] = 8
  /\ b64_dst[2][8] = PAD
  /\ b64_dst[2][7] = PAD

\* The header and the footer as functions of the multiplexer and the
\* selection, written out byte by byte.
HeaderFor(tmux, primary) ==
  (IF tmux THEN <<27, 80, 116, 109, 117, 120, 59, 27>> ELSE <<>>)
    \o <<27, 93, 53, 50, 59>> \o <<(IF primary THEN 112 ELSE 99)>> \o <<59>>

FooterFor(tmux) == IF tmux THEN <<7, 27, 92>> ELSE <<7>>

\* C11: the header and the footer depend on the multiplexer and the
\* selection only and are the same for the whole run: no step changes the
\* options, every header written is the tmux prefix ESC P t m u x ; ESC
\* (with tmux only) followed by ESC ] 5 2 ; then "p" or "c" then ";", and
\* every footer written is BEL ESC \ with tmux and BEL otherwise; Screen
\* has the header and the footer of no multiplexer.
C11_HeaderFooter ==
  [][/\ opts' = opts
     /\ \A j \in 1..Len(out') :
          /\ out'[j].k = "HDR" =>
               TokBytes(opts', out'[j]) = HeaderFor(opts'.is_tmux, opts'.primary)
          /\ out'[j].k = "FTR" =>
               TokBytes(opts', out'[j]) = FooterFor(opts'.is_tmux)
     /\ seq_start(opts') = HeaderFor(opts'.is_tmux, opts'.primary)
     /\ seq_end(opts') = FooterFor(opts'.is_tmux)]_vars

\* A finished transfer with Screen to the primary selection whose header has
\* 7 bytes and whose footer is the single BEL.
C11_Witness ==
  /\ pc = "exit"
  /\ Transferred
  /\ opts.is_screen
  /\ opts.primary
  /\ \E h \in Where("HDR") :
       out[h].ok /\ TokBytes(opts, out[h]) = <<27, 93, 53, 50, 59, 112, 59>>
  /\ TokBytes(opts, out[Len(out)]) = <<7>>

\* The positions in the log of the write calls that failed.
FailedCalls == {j \in 1..Len(out) : ~out[j].ok}

\* C12: in a transfer, a failed write of the header, of a Screen wrapper or
\* of a payload ends the loop at once: after the failed call no further
\* chunk is written (the payload that follows a failed ESC P or header in
\* the same iteration is the only one allowed), the footer is attempted
\* exactly once, and the run returns ERR_IO.
C12_WriteFailureAborts ==
  opts.op = OP_WRITE =>
    /\ \A j \in FailedCalls :
         Cardinality({b \in Where("B64") : b > j})
           <= (IF out[j].k \in {"DCS", "HDR"} THEN 1 ELSE 0)
    /\ (Transferred /\ FailedCalls # {}) => Cardinality(Where("FTR")) = 1
    /\ (pc = "exit" /\ FailedCalls # {}) => rc = ERR_IO

\* The bytes of the write calls at the positions a+1 .. b-1 of the log.
BytesBetween(a, b) ==
  Flatten([j \in 1..(b - a - 1) |-> TokBytes(opts, out[a + j])])

\* C13: once the probe has made its second query, the log holds the two
\* cursor-position requests and, between them, exactly the bytes that the
\* clear operation writes with the same options: the header, "!" and the
\* footer.
C13_ProbeStimulus ==
  (opts.op = OP_TEST /\ pc \in {"evaluate", "check_tty", "done", "exit"}) =>
    \E a, b \in Where("DSR") :
      /\ a < b
      /\ Where("DSR") = {a, b}
      /\ BytesBetween(a, b) = seq_start(opts) \o <<33>> \o seq_end(opts)

\* A complete cursor position report: ESC [ digits ; digits R and nothing
\* else.
CompleteReply(b) ==
  /\ Len(b) >= 6
  /\ b[1] = "ESC"
  /\ b[2] = "["
  /\ b[Len(b)] = "R"
  /\ \E s \in 4..(Len(b) - 2) :
       /\ b[s] = ";"
       /\ \A j \in (3..(s - 1)) \cup ((s + 1)..(Len(b) - 1)) : b[j] \in Digit

\* C14: get_cursor_column returns a column (a value >= 0) only when the
\* bytes it read are a complete report ESC [ row ; col R; for every other
\* reply (no "R" within the bytes it may read, bytes before ESC [, a failed
\* read) it returns -1.
C14_ReplyErrors ==
  /\ (opts.op = OP_TEST /\ pc = "stimulus") =>
       /\ col >= 0 => CompleteReply(reply_buf)
       /\ col < 0 => col = -1
  /\ (opts.op = OP_TEST /\ pc = "evaluate") =>
       /\ col2 >= 0 => CompleteReply(reply_buf)
       /\ col2 < 0 => col2 = -1

\* C15: arguments are rejected exactly when their space-joined length is
\* more than OSC_SAFE_LIMIT: a list whose joined length is at most
\* OSC_SAFE_LIMIT (74993 and 74994 included) is accepted and, without an
\* I/O error, transferred whole; and the joined text with its null byte
\* always fits in the buffer of OSC_SAFE_LIMIT bytes.
C15_ArgLimit ==
  (opts.op = OP_WRITE /\ Len(argv) > 0) =>
    /\ pc = "exit" => (Rejected <=> SpaceJoinedLen(argv) > OSC_SAFE_LIMIT)
    /\ (pc = "exit" /\ ~Rejected /\ ~tty_err) =>
         /\ rc = EXIT_SUCCESS
         /\ input.len = SpaceJoinedLen(argv)
         /\ PayloadLen(Payloads) = ExpectedLen
    /\ buf_len + 1 <= OSC_SAFE_LIMIT

\* The ESC \ that matches the ESC P at position j of the log: the first one
\* after it, when no other ESC P comes before it.  0 when there is none.
MatchingST(j) ==
  LET later == {e \in Where("ST") : e > j}
  IN  IF later = {} THEN 0
      ELSE LET e == CHOOSE x \in later : \A y \in later : x <= y
           IN  IF \E d \in Where("DCS") : j < d /\ d < e THEN 0 ELSE e

\* C16: with Screen, what is written between an ESC P and its matching
\* ESC \ is exactly the payload of one chunk; the header is written before
\* the first ESC P, so no wrapper encloses it; and the footer is written
\* after the last ESC \.
C16_ScreenPayloadOnly ==
  (opts.op = OP_WRITE /\ opts.is_screen) =>
    /\ \A j \in Where("DCS") :
         MatchingST(j) # 0 =>
           (MatchingST(j) = j + 2 /\ out[j + 1].k = "B64")
    /\ \A h \in Where("HDR"), j \in Where("DCS") : h < j
    /\ \A f \in Where("FTR"), e \in Where("ST") : e < f

\* C17: a probe whose destination is not a terminal writes no
\* cursor-position request and no stimulus (header or footer) to it, reads
\* no reply from it, and returns a failure status.
C17_ProbeNeedsTty ==
  (opts.op = OP_TEST /\ ~isatty) =>
    /\ Where("DSR") \cup Where("HDR") \cup Where("FTR") = {}
    /\ reply_buf = <<>>
    /\ pc = "exit" => rc # EXIT_SUCCESS

\* What holds of the bytes read by the last cursor query.
BoundedReads ==
  opts.op = OP_TEST =>
    /\ Len(reply_buf) <= 15
    /\ \A j \in 1..(Len(reply_buf) - 1) : reply_buf[j] # "R"
    /\ (pc = "stimulus" /\ out[Len(out)].ok) =>
         reply_buf \o rx \in Replies

\* C18: a cursor query reads at most 15 bytes and stops right after the
\* first "R", so the first query leaves every byte after the terminator
\* unread; and, every read returning, a probe always comes to its end, with
\* the terminal modes restored.
C18_BoundedReads ==
  /\ []BoundedReads
  /\ (opts.op = OP_TEST /\ pc = "start") ~>
       (pc = "exit" /\ (isatty => lflag = term_restore))

\* A finished probe whose second query stopped at "R" and left the byte
\* after it unread.
C18_Witness ==
  /\ pc = "exit"
  /\ opts.op = OP_TEST
  /\ isatty
  /\ col = 1
  /\ reply_buf = <<"ESC", "[", "1", ";", "7", "R">>
  /\ rx = <<"X">>

\* C19: the terminal's local modes are saved, changed and restored by the
\* probe only: in a run of the write or the clear operation, a write run
\* whose arguments are rejected included, no step saves the modes or
\* changes them.
C19_ModesProbeOnly ==
  [][opts.op # OP_TEST => (lflag' = lflag /\ term_restore' = term_restore)]_vars

\* The number of bytes the write calls of ts give to the device.
RECURSIVE TotalLen(_)
TotalLen(ts) ==
  IF ts = <<>> THEN 0 ELSE TokLen(opts, Head(ts)) + TotalLen(Tail(ts))

=============================================================================
